---- MODULE Spec2Model ----
(***************************************************************************)
(* Model of find_n_distinct (src/src/lib.rs), the CVM distinct-elements    *)
(* estimator, and of the Gen random source it draws from.                  *)
(*                                                                         *)
(* A uniform draw u in [0,1) is modelled by an integer n in 0..Grid-1      *)
(* standing for u = n/Grid.  The sampling probability p is an exact        *)
(* rational <<num, den>>; f64 represents every 1/2^k reached here exactly. *)
(* thresh is computed by the code from (m, eps, delta) with log2 and ceil; *)
(* for any m >= 1 every non-negative integer is the value of that formula  *)
(* for some positive eps, delta, so the inputs eps and delta are modelled  *)
(* by the value threshIn the formula yields on them.                       *)
(***************************************************************************)
EXTENDS Integers, Sequences, FiniteSets, TLC

\* ---- bounds of the model ----
MaxLen == 4         \* longest stream (entropy-seeded runs)
MaxVal == 3         \* stream elements are 1..MaxVal
MaxThresh == 3      \* largest value of thresh
Grid == 2           \* number of distinct draw values n/Grid
SeededLen == 3      \* longest stream of the seeded, repeated runs
SeededVal == 2      \* their stream elements are 1..SeededVal
SeededThresh == 2   \* largest thresh of the seeded, repeated runs

Values == 1..MaxVal
Draws == 0..(Grid - 1)

VARIABLES
    stream,     \* the argument stream: &Vec<T>
    threshIn,   \* the value of the thresh formula on (m, eps, delta)
    seed,       \* Option<u64> given to Gen::new: <<>> is None, <<s>> is Some(s)
    tape,       \* the draws the seeded rng has produced so far, in order
    gen,        \* the Gen in use: [seeded, pos]
    pc,         \* position in find_n_distinct
    i,          \* loop index (0-based)
    p,          \* sampling probability <<num, den>>
    chi,        \* the sample set, a Vec<&T>
    thresh,     \* the local thresh
    result,     \* the value returned
    exit,       \* which return was taken: "none", "empty", "abort", "normal"
    thinnings,  \* number of executions of the thinning block so far
    drawn,      \* draws consumed in the current loop iteration, in order
    call,       \* 1 for the first call, 2 for the repeated call with the same seed
    trace,      \* states the current seeded call has passed through
    hist        \* states the first seeded call passed through

vars == <<stream, threshIn, seed, tape, gen, pc, i, p, chi, thresh, result,
          exit, thinnings, drawn, call, trace, hist>>

\* values of the locals before lines 73-78 have run
NotComputed == 0 - 1
NoP == <<0, 0>>

RECURSIVE Pow2(_)
Pow2(k) == IF k = 0 THEN 1 ELSE 2 * Pow2(k - 1)

Range(s) == {s[j] : j \in 1..Len(s)}

StreamsUpTo(n, vals) == UNION {[1..k -> vals] : k \in 0..n}

\* ---- Gen ----

\* Gen::new: Some(seed) gives the deterministic rng of that seed, None an
\* entropy-seeded one.
\* faulty variant of GenNew: the seed is ignored
GenNewEntropy(sd) == [seeded |-> FALSE, pos |-> 0]

GenNew(sd) == [seeded |-> sd # <<>>, pos |-> 0]

\* Gen::gen called Len(us) times in a row may return the values us: a seeded
\* rng repeats what its seed has produced at those positions, an
\* entropy-seeded one returns anything.
GenGen(g, tp, us) ==
    g.seeded => \A j \in 1..Len(us) : (g.pos + j <= Len(tp)) => us[j] = tp[g.pos + j]

GenAfter(g, us) == [g EXCEPT !.pos = g.pos + Len(us)]

TapeAfter(g, tp, us) ==
    IF ~g.seeded \/ g.pos + Len(us) <= Len(tp) THEN tp
    ELSE SubSeq(tp, 1, g.pos) \o SubSeq(us, Len(tp) - g.pos + 1, Len(us))

\* ---- helpers of find_n_distinct ----

\* stream.is_empty(), with all eps and delta
\* faulty variant of IsEmpty: the check is missing
IsEmptyNever(s) == FALSE

IsEmpty(s) == s = <<>>

\* chi.iter().position(|x| *x == ai): the first index holding a, 0 for None
Position(c, a) ==
    IF \E j \in 1..Len(c) : c[j] = a
    THEN CHOOSE j \in 1..Len(c) : c[j] = a /\ \A l \in 1..(j - 1) : c[l] # a
    ELSE 0

\* Vec::swap_remove: the last entry takes the place of the removed one
\* faulty variant of SwapRemove: the last entry is copied but not popped
SwapRemoveNoPop(c, pos) == [c EXCEPT ![pos] = c[Len(c)]]

SwapRemove(c, pos) ==
    IF pos = Len(c) THEN SubSeq(c, 1, Len(c) - 1)
    ELSE [SubSeq(c, 1, Len(c) - 1) EXCEPT ![pos] = c[Len(c)]]

\* lines 86-88
\* faulty variant of RemoveIfPresent: nothing is removed
RemoveNever(c, a) == c

RemoveIfPresent(c, a) ==
    IF Position(c, a) # 0 THEN SwapRemove(c, Position(c, a)) ELSE c

\* gen.gen::<f64>() < p, for the draw n/Grid and p = q[1]/q[2]
Accept(n, q) == n * q[2] < q[1] * Grid

\* gen.gen::<f64>() >= 0.5
\* faulty variant of KeepDraw: the comparison is inverted
KeepDrawBelow(n) == 2 * n < Grid

KeepDraw(n) == 2 * n >= Grid

\* chi.retain(|_| gen.gen::<f64>() >= 0.5): one draw per entry, in order
RECURSIVE RetainFrom(_, _, _)
RetainFrom(c, us, j) ==
    IF j > Len(c) THEN <<>>
    ELSE (IF KeepDraw(us[j]) THEN <<c[j]>> ELSE <<>>) \o RetainFrom(c, us, j + 1)

Retain(c, us) == RetainFrom(c, us, 1)

\* p /= 2.0
\* faulty variants of Halve: p /= 4.0 and p /= 1.5
HalveQuarter(q) == <<q[1], 4 * q[2]>>

HalveTwoThirds(q) == <<2 * q[1], 3 * q[2]>>

Halve(q) == <<q[1], 2 * q[2]>>

\* chi.len() == thresh
\* faulty variant of AtThresh: > for ==
AboveThresh(c, t) == Len(c) > t

AtThresh(c, t) == Len(c) = t

\* (chi.len() as f64 / p) as usize: the quotient n / (q[1]/q[2]) truncated.
\* The cast saturates at usize::MAX, which takes 64 thinnings to reach and is
\* beyond the streams modelled here.
\* faulty variant of Estimate: one too many
EstimateRoundedUp(n, q) == (n * q[2]) \div q[1] + 1

Estimate(n, q) == (n * q[2]) \div q[1]

\* ---- observation of a seeded call ----
Obs == [pc |-> pc, i |-> i, p |-> p, chi |-> chi, result |-> result, exit |-> exit]

Observe == trace' = IF seed # <<>> THEN Append(trace, Obs) ELSE trace

\* ---- initial states ----
InitWith(streams, threshes, seeds) ==
    /\ stream \in streams
    /\ threshIn \in threshes
    /\ seed \in seeds
    /\ tape = <<>>
    /\ gen = GenNew(seed)
    /\ pc = "start"
    /\ i = 0
    /\ p = NoP
    /\ chi = <<>>
    /\ thresh = NotComputed
    /\ result = 0
    /\ exit = "none"
    /\ thinnings = 0
    /\ drawn = <<>>
    /\ call = 1
    /\ trace = <<>>
    /\ hist = <<>>

Init == InitWith(StreamsUpTo(MaxLen, Values), 0..MaxThresh, {<<>>})

\* The code only compares elements (T: Eq), so for the repeated, seeded calls
\* one stream per pattern of equalities is taken: a value occurs first only
\* after every smaller value has occurred.
FirstOccurrencesInOrder(s) ==
    \A j \in 1..Len(s) : \A v \in 1..(s[j] - 1) : \E l \in 1..(j - 1) : s[l] = v

InitSeeded ==
    InitWith({s \in StreamsUpTo(SeededLen, 1..SeededVal) : FirstOccurrencesInOrder(s)},
             0..SeededThresh, {<<1>>})

\* ---- actions ----

\* lines 68-70: the empty stream returns 0 at once
ReturnEmpty ==
    /\ pc = "start"
    /\ IsEmpty(stream)
    /\ pc' = "done"
    /\ result' = 0
    /\ exit' = "empty"
    /\ Observe
    /\ UNCHANGED <<stream, threshIn, seed, tape, gen, i, p, chi, thresh,
                   thinnings, drawn, call, hist>>

\* lines 73-82: the locals are set up and the loop is entered.  The Gen of
\* the argument is used; the Gen::new(None) that unwrap_or builds beside it
\* is dropped.
Enter ==
    /\ pc = "start"
    /\ ~IsEmpty(stream)
    /\ p' = <<1, 1>>
    /\ chi' = <<>>
    /\ thresh' = threshIn
    /\ i' = 0
    /\ pc' = IF Len(stream) > 0 THEN "remove" ELSE "return"
    /\ Observe
    /\ UNCHANGED <<stream, threshIn, seed, tape, gen, result, exit,
                   thinnings, drawn, call, hist>>

\* lines 83-88: a_i is removed from chi if it is there
Remove ==
    /\ pc = "remove"
    /\ chi' = RemoveIfPresent(chi, stream[i + 1])
    /\ drawn' = <<>>
    /\ pc' = "insert"
    /\ Observe
    /\ UNCHANGED <<stream, threshIn, seed, tape, gen, i, p, thresh, result,
                   exit, thinnings, call, hist>>

\* lines 91-94: one draw; a_i is pushed when the draw is below p
Insert ==
    /\ pc = "insert"
    /\ \E n \in Draws :
        /\ GenGen(gen, tape, <<n>>)
        /\ gen' = GenAfter(gen, <<n>>)
        /\ tape' = TapeAfter(gen, tape, <<n>>)
        /\ drawn' = Append(drawn, n)
        /\ chi' = IF Accept(n, p) THEN Append(chi, stream[i + 1]) ELSE chi
    /\ pc' = "check"
    /\ Observe
    /\ UNCHANGED <<stream, threshIn, seed, i, p, thresh, result, exit,
                   thinnings, call, hist>>

\* end of the loop body: the next element, or the end of the loop
Advance ==
    /\ i' = i + 1
    /\ pc' = IF i + 1 < Len(stream) THEN "remove" ELSE "return"

\* line 96 false: no thinning in this iteration
NoThin ==
    /\ pc = "check"
    /\ ~AtThresh(chi, thresh)
    /\ Advance
    /\ Observe
    /\ UNCHANGED <<stream, threshIn, seed, tape, gen, p, chi, thresh, result,
                   exit, thinnings, drawn, call, hist>>

\* lines 96-100: chi is thinned with one draw per entry, then p is halved
Thin ==
    /\ pc = "check"
    /\ AtThresh(chi, thresh)
    /\ \E us \in [1..Len(chi) -> Draws] :
        /\ GenGen(gen, tape, us)
        /\ gen' = GenAfter(gen, us)
        /\ tape' = TapeAfter(gen, tape, us)
        /\ drawn' = drawn \o us
        /\ chi' = Retain(chi, us)
    /\ p' = Halve(p)
    /\ thinnings' = thinnings + 1
    /\ pc' = "recheck"
    /\ Observe
    /\ UNCHANGED <<stream, threshIn, seed, i, thresh, result, exit, call, hist>>

\* lines 102-105: nothing was thrown away, the run gives up with 0
Abort ==
    /\ pc = "recheck"
    /\ AtThresh(chi, thresh)
    /\ result' = 0
    /\ exit' = "abort"
    /\ pc' = "done"
    /\ Observe
    /\ UNCHANGED <<stream, threshIn, seed, tape, gen, i, p, chi, thresh,
                   thinnings, drawn, call, hist>>

\* line 102 false: the loop goes on
Continue ==
    /\ pc = "recheck"
    /\ ~AtThresh(chi, thresh)
    /\ Advance
    /\ Observe
    /\ UNCHANGED <<stream, threshIn, seed, tape, gen, p, chi, thresh, result,
                   exit, thinnings, drawn, call, hist>>

\* lines 109-111: the estimate
Finish ==
    /\ pc = "return"
    /\ result' = Estimate(Len(chi), p)
    /\ exit' = "normal"
    /\ pc' = "done"
    /\ Observe
    /\ UNCHANGED <<stream, threshIn, seed, tape, gen, i, p, chi, thresh,
                   thinnings, drawn, call, hist>>

\* the caller builds Gen::new(Some(seed)) again and calls find_n_distinct
\* again with the same stream, eps and delta
Recall ==
    /\ pc = "done"
    /\ call = 1
    /\ seed # <<>>
    /\ call' = 2
    /\ hist' = Append(trace, Obs)
    /\ trace' = <<>>
    /\ gen' = GenNew(seed)
    /\ pc' = "start"
    /\ i' = 0
    /\ p' = NoP
    /\ chi' = <<>>
    /\ thresh' = NotComputed
    /\ result' = 0
    /\ exit' = "none"
    /\ thinnings' = 0
    /\ drawn' = <<>>
    /\ UNCHANGED <<stream, threshIn, seed, tape>>

Next ==
    \/ ReturnEmpty
    \/ Enter
    \/ Remove
    \/ Insert
    \/ NoThin
    \/ Thin
    \/ Abort
    \/ Continue
    \/ Finish

NextSeeded ==
    \/ Next
    \/ Recall

Spec == Init /\ [][Next]_vars

SpecSeeded == InitSeeded /\ [][NextSeeded]_vars

\* ---- properties ----

Distinct(s) == Cardinality(Range(s))

NoDup(c) == \A j, l \in 1..Len(c) : j # l => c[j] # c[l]

\* n / (q[1]/q[2]) rounded to the nearest integer, halves upwards
RoundDiv(n, q) == (2 * n * q[2] + q[1]) \div (2 * q[1])

\* C1: a stream with fewer distinct values than thresh is counted exactly,
\* whatever the draws are: chi is never thinned, p stays 1, every element
\* seen is (re)inserted, and the result is the number of distinct values.
C1_ExactBelowThresh ==
    Distinct(stream) < threshIn =>
        /\ thinnings = 0
        /\ exit # "abort"
        /\ p \in {NoP, <<1, 1>>}
        /\ pc = "remove" => Range(chi) = Range(SubSeq(stream, 1, i))
        /\ pc = "check" => /\ chi # <<>>
                           /\ chi[Len(chi)] = stream[i + 1]
                           /\ Range(chi) = Range(SubSeq(stream, 1, i + 1))
        /\ pc = "done" => result = Distinct(stream)

C1_Witness ==
    /\ pc = "done"
    /\ exit = "normal"
    /\ Distinct(stream) = 2
    /\ Distinct(stream) < thresh
    /\ Len(stream) > 2
    /\ result = 2

\* C2 as stated: for thresh >= 1 the value returned is a non-negative
\* integer less than or equal to the stream length.
C2_AtMostLength ==
    (pc = "done" /\ threshIn >= 1) => (result >= 0 /\ result <= Len(stream))

\* C2 amended: for thresh >= 1 the value returned is a non-negative integer
\* less than or equal to m * 2^k, k the number of thinnings of the run; it
\* is at most m when chi was never thinned.
C2_AtMostLengthTimesPow2 ==
    (pc = "done" /\ threshIn >= 1) =>
        /\ result >= 0
        /\ result <= Len(stream) * Pow2(thinnings)

C2_Witness ==
    /\ pc = "done"
    /\ exit = "normal"
    /\ thresh >= 1
    /\ thinnings >= 1
    /\ result > Len(stream)

\* C3: on the empty stream the call returns 0 at once: thresh is not
\* computed, no draw is consumed, p and chi are not set up.
C3_EmptyStream ==
    stream = <<>> =>
        /\ pc \in {"start", "done"}
        /\ thresh = NotComputed
        /\ p = NoP
        /\ chi = <<>>
        /\ gen.pos = 0
        /\ drawn = <<>>
        /\ thinnings = 0
        /\ pc = "done" => (result = 0 /\ exit = "empty")

C3_Witness ==
    /\ stream = <<>>
    /\ pc = "done"
    /\ exit = "empty"
    /\ threshIn = MaxThresh

\* C4: a second call with the same stream, eps, delta and seed passes
\* through the states of the first call, one by one, and returns the same
\* result.
C4_Deterministic ==
    call = 2 =>
        /\ Len(trace) < Len(hist)
        /\ \A n \in 1..Len(trace) : trace[n] = hist[n]
        /\ Obs = hist[Len(trace) + 1]
        /\ pc = "done" => Len(trace) + 1 = Len(hist)

C4_Witness ==
    /\ call = 2
    /\ pc = "done"
    /\ exit = "normal"
    /\ thinnings >= 1
    /\ result >= 1

\* C5: p starts at 1, never grows, and is 1/2^k after k thinnings: it is
\* halved in the step that thins chi and changed by no other step.
C5_HalvedPerThinning ==
    [][/\ p' # NoP => p' = <<1, Pow2(thinnings')>>
       /\ (p = NoP /\ p' # NoP) => (p' = <<1, 1>> /\ thinnings' = 0)
       /\ p # NoP =>
            /\ p'[1] * p[2] <= p[1] * p'[2]
            /\ \/ thinnings' = thinnings /\ p' = p
               \/ /\ thinnings' = thinnings + 1
                  /\ 2 * p'[1] * p[2] = p[1] * p'[2]
                  /\ pc = "check" /\ Len(chi) = thresh]_vars

C5_Witness ==
    /\ thinnings = 2
    /\ p = <<1, 4>>
    /\ pc = "return"

\* C6: chi never holds two equal entries.
C6_NoDuplicates == NoDup(chi)

C6_Witness ==
    /\ pc = "check"
    /\ thinnings >= 1
    /\ Len(chi) >= 2
    /\ stream[i + 1] \in Range(SubSeq(stream, 1, i))
    /\ chi[Len(chi)] = stream[i + 1]

\* C7: for thresh >= 1, chi never has more than thresh entries, and fewer
\* than thresh at the start of every iteration and at the normal end of the
\* loop: when the insertion fills it to thresh it is thinned in the same
\* iteration, after which it is smaller or the run aborts.
C7_SizeBound ==
    [][thresh' >= 1 =>
        /\ Len(chi') <= thresh'
        /\ pc' \in {"remove", "return"} => Len(chi') < thresh'
        /\ exit' = "normal" => Len(chi') < thresh'
        /\ (pc = "check" /\ Len(chi) = thresh) =>
                (pc' = "recheck" /\ thinnings' = thinnings + 1 /\ i' = i)
        /\ pc = "recheck" =>
                \/ Len(chi) < thresh /\ pc' \in {"remove", "return"}
                \/ Len(chi) = thresh /\ pc' = "done" /\ exit' = "abort"]_vars

C7_Witness ==
    /\ pc = "remove"
    /\ thresh >= 2
    /\ thinnings >= 1
    /\ Len(chi) = thresh - 1

\* C9: the normal return is round(|chi| / p), which is |chi| * 2^k after k
\* thinnings, so truncating gives what rounding gives.
C9_EstimateIsRounded ==
    exit = "normal" =>
        /\ result = RoundDiv(Len(chi), p)
        /\ result = Len(chi) * Pow2(thinnings)

C9_Witness ==
    /\ exit = "normal"
    /\ thinnings >= 1
    /\ Len(chi) >= 1
    /\ result = 2 * Len(chi)

\* the entries of c whose draw, the j-th after the insertion draw, is >= 0.5
KeptBy(c, ds) == {j \in 1..Len(c) : 2 * ds[1 + j] >= Grid}

\* C10: when chi has exactly thresh entries after the insertion step, each
\* entry is kept iff its own draw is >= 0.5 and p is halved; if all are kept
\* the run returns 0 at once, leaving the later elements unprocessed,
\* otherwise it goes on with the next element.  0 is returned early in no
\* other situation, and chi is thinned at most once per element.
C10_ThresholdExhaustion ==
    [][/\ (pc = "check" /\ Len(chi) = thresh) =>
            /\ pc' = "recheck"
            /\ Len(drawn') = 1 + Len(chi)
            /\ Len(chi') = Cardinality(KeptBy(chi, drawn'))
            /\ \A j \in 1..Len(chi) :
                   (chi[j] \in Range(chi')) <=> (j \in KeptBy(chi, drawn'))
            /\ 2 * p'[1] * p[2] = p[1] * p'[2]
            /\ thinnings' = thinnings + 1
       /\ (pc = "check" /\ Len(chi) # thresh) =>
            /\ chi' = chi /\ thinnings' = thinnings /\ exit' = "none"
            /\ i' = i + 1
       /\ pc = "recheck" =>
            /\ thinnings' = thinnings
            /\ IF Len(chi) = thresh
               THEN /\ KeptBy(chi, drawn) = 1..Len(chi)
                    /\ pc' = "done" /\ exit' = "abort" /\ result' = 0
                    /\ i' = i /\ i < Len(stream)
               ELSE /\ exit' = "none" /\ i' = i + 1
                    /\ pc' = IF i' < Len(stream) THEN "remove" ELSE "return"
       /\ exit' = "abort" => (pc = "recheck" /\ Len(chi) = thresh)
       /\ thinnings' # thinnings => pc = "check"
       /\ thinnings' <= i' + 1
       /\ pc' \in {"remove", "insert", "check", "return"} => thinnings' <= i'
       /\ pc # "done"]_vars

C10_Witness ==
    /\ exit = "abort"
    /\ thresh >= 2
    /\ i + 1 < Len(stream)
    /\ thinnings = 2

====
